---- MODULE Spec2Model ----
(***************************************************************************)
(* Model of the nuScenes dataloader                                        *)
(* (tensorbay/opendataset/nuScenes/loader.py).                             *)
(*                                                                         *)
(* The loader is a single-threaded program: nuScenes() walks the subsets   *)
(* of a directory, _generate_segments() walks the scenes of a subset and   *)
(* follows the `next` chain of samples, _load_frame_and_sensor() builds    *)
(* one frame per sample, _get_labels()/_get_labeled_box() resolve the 3D   *)
(* box labels of lidar records.  The program counter `pc` records where    *)
(* the interpreter stands; the JSON tables on disk are the input, drawn    *)
(* in Init from small sets that include malformed datasets (dangling       *)
(* tokens, cyclic `next` chains, absent table files).                      *)
(*                                                                         *)
(* Strings that the loader takes apart (subset names, attribute names)     *)
(* are sequences of one-character strings; opaque tokens are strings.      *)
(***************************************************************************)
EXTENDS Integers, Sequences, FiniteSets, TLC

VARIABLES
    disk,                 \* the dataset directory: listing, tables, absent files
    pc,                   \* position of the interpreter
    subsetIdx,            \* index of `subset` in os.listdir(root_path)
    is_test,              \* _generate_segments: is_test
    annotation_info,      \* _generate_segments: annotation_info
    opened,               \* table files opened so far for the current subset
    sceneIdx,             \* index of `scene` in annotation_info["scenes"]
    segment,              \* _generate_segments: segment
    current_frame_token,  \* _generate_segments: current_frame_token
    frame,                \* _load_frame_and_sensor: frame
    sfIdx,                \* index of `sensor_frame` in frame_data[token]
    dataset,              \* nuScenes: dataset (segments keyed by name)
    returned,             \* value returned by nuScenes(), NoDataset before
    error,                \* the exception that left nuScenes(), NoError before
    pure                  \* inputs and result of the label functions (PureSpec)

vars == <<disk, pc, subsetIdx, is_test, annotation_info, opened, sceneIdx,
          segment, current_frame_token, frame, sfIdx, dataset, returned,
          error, pure>>

loaderVars == <<disk, pc, subsetIdx, is_test, annotation_info, opened,
                sceneIdx, segment, current_frame_token, frame, sfIdx,
                dataset, returned, error>>

----------------------------------------------------------------------------
(* Bounds *)

\* A traversal is cut off after this many frames in one segment: a cyclic
\* `next` chain would otherwise grow the segment without bound.
MaxFrames == 5

----------------------------------------------------------------------------
(* Python values *)

\* nuScenes() has returned nothing; <<d>> once it has returned dataset d
NoDataset == <<>>
NoError == "NoError"
EmptyDict == [k \in {} |-> 0]

DictSet(d, k, v) == [x \in DOMAIN d \cup {k} |-> IF x = k THEN v ELSE d[x]]

Ok(v) == [ok |-> TRUE, val |-> v]
Err(e) == [ok |-> FALSE, err |-> e]

\* str.endswith
EndsWith(s, suffix) ==
    /\ Len(s) >= Len(suffix)
    /\ SubSeq(s, Len(s) - Len(suffix) + 1, Len(s)) = suffix

\* str.split(sep, 1): the split at the first separator instead of the last
RSplit1_first(s, sep) ==
    LET dots == {i \in 1..Len(s) : s[i] = sep}
    IN  IF dots = {} THEN <<s>>
        ELSE LET first == CHOOSE i \in dots : \A j \in dots : i <= j
             IN  <<SubSeq(s, 1, first - 1), SubSeq(s, first + 1, Len(s))>>

\* str.rsplit(sep, 1) for a one-character separator: the list of pieces
RSplit1(s, sep) ==
    LET dots == {i \in 1..Len(s) : s[i] = sep}
    IN  IF dots = {} THEN <<s>>
        ELSE LET last == CHOOSE i \in dots : \A j \in dots : j <= i
             IN  <<SubSeq(s, 1, last - 1), SubSeq(s, last + 1, Len(s))>>

----------------------------------------------------------------------------
(* tensorbay.geometry: rigid transforms.  A rotation is a signed           *)
(* permutation of the three axes (the 24 rotations of the cube), a         *)
(* translation an integer vector.                                          *)

RotIdentity == <<[a |-> 1, s |-> 1], [a |-> 2, s |-> 1], [a |-> 3, s |-> 1]>>
\* quarter turn about z: (x, y, z) -> (-y, x, z)
RotZ90 == <<[a |-> 2, s |-> -1], [a |-> 1, s |-> 1], [a |-> 3, s |-> 1]>>
\* quarter turn about x: (x, y, z) -> (x, -z, y)
RotX90 == <<[a |-> 1, s |-> 1], [a |-> 3, s |-> -1], [a |-> 2, s |-> 1]>>

Rotate(r, v) == [i \in 1..3 |-> r[i].s * v[r[i].a]]

RotMul(r1, r2) ==
    [i \in 1..3 |-> [a |-> r2[r1[i].a].a, s |-> r1[i].s * r2[r1[i].a].s]]

RotInverse(r) ==
    [j \in 1..3 |-> LET i == CHOOSE k \in 1..3 : r[k].a = j
                    IN  [a |-> i, s |-> r[i].s]]

VecAdd(u, v) == [i \in 1..3 |-> u[i] + v[i]]
VecNeg(v) == [i \in 1..3 |-> 0 - v[i]]

Transform3D(translation, rotation) ==
    [translation |-> translation, rotation |-> rotation]

\* Transform3D.__mul__(Transform3D)
TransformMul(t1, t2) ==
    Transform3D(VecAdd(t1.translation, Rotate(t1.rotation, t2.translation)),
                RotMul(t1.rotation, t2.rotation))

\* Transform3D.inverse()
TransformInverse(t) ==
    LET r == RotInverse(t.rotation)
    IN  Transform3D(Rotate(r, VecNeg(t.translation)), r)

\* Transform3D.__mul__(LabeledBox3D): translation and rotation are
\* transformed, everything else is kept
TransformBox(t, box) ==
    [box EXCEPT !.translation = VecAdd(t.translation,
                                       Rotate(t.rotation, box.translation)),
                !.rotation = RotMul(t.rotation, box.rotation)]

----------------------------------------------------------------------------
(* Label resolution: _ATTRIBUTE_KEYS, _get_labeled_box, _get_labels *)

Str_vehicle == <<"v", "e", "h", "i", "c", "l", "e">>
Str_cycle == <<"c", "y", "c", "l", "e">>
Str_pedestrian == <<"p", "e", "d", "e", "s", "t", "r", "i", "a", "n">>

_ATTRIBUTE_KEYS ==
    [k \in {Str_vehicle, Str_cycle, Str_pedestrian} |->
        CASE k = Str_vehicle -> "vehicle_motion"
          [] k = Str_cycle -> "cycle_rider"
          [] k = Str_pedestrian -> "pedestrian_motion"]

\* key, value = attribute_full_name.rsplit(".", 1)
\* attributes[_ATTRIBUTE_KEYS[key]] = value
FlattenAttribute(attributes, attribute_full_name) ==
    LET parts == RSplit1(attribute_full_name, ".")
    IN  IF Len(parts) # 2 THEN Err("ValueError")
        ELSE IF parts[1] \notin DOMAIN _ATTRIBUTE_KEYS
             THEN Err("KeyError:_ATTRIBUTE_KEYS")
             ELSE Ok(DictSet(attributes, _ATTRIBUTE_KEYS[parts[1]], parts[2]))

\* the loop over instance_annotation["attribute_tokens"], from position i
RECURSIVE FlattenAttributes(_, _, _, _)
FlattenAttributes(attribute_tokens, i, attributes, info) ==
    IF i > Len(attribute_tokens) THEN Ok(attributes)
    ELSE IF attribute_tokens[i] \notin DOMAIN info.attribute
         THEN Err("KeyError:attribute")
         ELSE LET r == FlattenAttribute(attributes,
                           info.attribute[attribute_tokens[i]].name)
              IN  IF ~r.ok THEN r
                  ELSE FlattenAttributes(attribute_tokens, i + 1, r.val, info)

\* size=(length, width, height) from width, length, height = ...["size"]
BoxSize(size) == <<size[2], size[1], size[3]>>

_get_labeled_box(instance_annotation, info) ==
    LET instance == instance_annotation.instance_token
    IN  IF instance \notin DOMAIN info.instance THEN Err("KeyError:instance")
        ELSE IF info.instance[instance].category_token \notin DOMAIN info.category
        THEN Err("KeyError:category")
        ELSE
          LET category ==
                  info.category[info.instance[instance].category_token].name
              flat == FlattenAttributes(instance_annotation.attribute_tokens,
                                        1, EmptyDict, info)
          IN  IF ~flat.ok THEN flat
              ELSE IF instance_annotation.visibility_token
                          \notin DOMAIN info.visibility
              THEN Err("KeyError:visibility")
              ELSE Ok([translation |-> instance_annotation.translation,
                       rotation |-> instance_annotation.rotation,
                       size |-> BoxSize(instance_annotation.size),
                       category |-> category,
                       instance |-> instance,
                       attributes |->
                           DictSet(flat.val, "visibility",
                                   info.visibility[
                                       instance_annotation.visibility_token
                                   ].level)])

\* the two transforms composed in the wrong order
WorldToLidar_swapped(lidar_ego_pose, lidar_to_ego) ==
    TransformInverse(TransformMul(lidar_to_ego, lidar_ego_pose))

\* world_to_lidar = (lidar_ego_pose * lidar_to_ego).inverse()
WorldToLidar(lidar_ego_pose, lidar_to_ego) ==
    TransformInverse(TransformMul(lidar_ego_pose, lidar_to_ego))

\* the loop over sample_annotations[current_frame_token], from position i
RECURSIVE LabelLoop(_, _, _, _, _)
LabelLoop(annotations, i, labels, world_to_lidar, info) ==
    IF i > Len(annotations) THEN Ok(labels)
    ELSE LET r == _get_labeled_box(annotations[i], info)
         IN  IF ~r.ok THEN r
             ELSE LabelLoop(annotations, i + 1,
                            Append(labels, TransformBox(world_to_lidar, r.val)),
                            world_to_lidar, info)

_get_labels(token, lidar_ego_pose_info, lidar_to_ego, info) ==
    LET sample_annotations == info.sample_annotations
    IN  IF token \in DOMAIN sample_annotations
        THEN LET lidar_ego_pose ==
                     Transform3D(lidar_ego_pose_info.translation,
                                 lidar_ego_pose_info.rotation)
             IN  LabelLoop(sample_annotations[token], 1, <<>>,
                           WorldToLidar(lidar_ego_pose, lidar_to_ego), info)
        ELSE Ok(<<>>)

----------------------------------------------------------------------------
(* tensorbay.opendataset._utility.nuScenes: table indexers and get_sensor *)

\* get_info_with_token: the table keyed by the records' token
get_info_with_token(table) ==
    [t \in {table[i].token : i \in 1..Len(table)} |->
        LET last == CHOOSE i \in 1..Len(table) :
                        /\ table[i].token = t
                        /\ \A j \in 1..Len(table) : table[j].token = t => j <= i
        IN  table[last]]

IsKept(rec, no_key_frame) == no_key_frame \/ rec.is_key_frame

\* get_info_with_determined_token: the records grouped by sample_token in
\* table order; without no_key_frame only key-frame records are kept
get_info_with_determined_token(table, no_key_frame) ==
    LET kept == {i \in 1..Len(table) : IsKept(table[i], no_key_frame)}
        Group(t) == {i \in kept : table[i].sample_token = t}
        RECURSIVE Ordered(_, _)
        Ordered(S, acc) ==
            IF S = {} THEN acc
            ELSE LET m == CHOOSE i \in S : \A j \in S : i <= j
                 IN  Ordered(S \ {m}, Append(acc, table[m]))
    IN  [t \in {table[i].sample_token : i \in kept} |-> Ordered(Group(t), <<>>)]

\* get_sensor: a sensor named after the channel carrying the calibration
get_sensor(sensor_type, sensor_name, calibrated_sensor_info) ==
    [name |-> sensor_name,
     type |-> sensor_type,
     extrinsics |-> Transform3D(calibrated_sensor_info.translation,
                                calibrated_sensor_info.rotation)]

----------------------------------------------------------------------------
(* The dataset directories the loader is run on *)

Str_test == <<"t", "e", "s", "t">>
SubsetMini == <<"v", "1", ".", "0", "-", "m", "i", "n", "i">>
SubsetTest == <<"v", "1", ".", "0", "-", "t", "e", "s", "t">>
SubsetTestDev == <<"t", "e", "s", "t", "-", "d", "e", "v">>

AttrVehicleMoving == Str_vehicle \o <<".", "m", "o", "v", "i", "n", "g">>
AttrCycleRider == Str_cycle \o <<".", "w", "i", "t", "h", "_", "r", "i", "d", "e", "r">>
AttrPedestrianStanding == Str_pedestrian \o <<".", "s", "t", "a", "n", "d", "i", "n", "g">>
AttrVehicleParked == Str_vehicle \o <<".", "p", "a", "r", "k", "e", "d">>
AttrUnknownState == <<"u", "n", "k", "n", "o", "w", "n", ".", "s", "t", "a", "t", "e">>
AttrTwoDots == Str_vehicle \o <<".", "b", "u", "s", ".", "m", "o", "v", "i", "n", "g">>
AttrNoDot == <<"m", "o", "v", "i", "n", "g">>

AnnotationFiles ==
    {"sample_annotation", "instance", "category", "attribute", "visibility"}

SampleTokens == {"s1", "s2", "s3"}

SampleTable(nxt) ==
    <<[token |-> "s1", next |-> nxt["s1"]],
      [token |-> "s2", next |-> nxt["s2"]],
      [token |-> "s3", next |-> nxt["s3"]]>>

\* `next` links: every link among the samples or empty (chains, forks and
\* cycles), and three chains with a link to a token that is no sample
NextLinks ==
    [SampleTokens -> SampleTokens \cup {""}]
    \cup {[s \in SampleTokens |-> IF s = d THEN "s9" ELSE ""] : d \in {"s1", "s3"}}
    \cup {[s \in SampleTokens |->
              CASE s = "s1" -> "s2" [] s = "s2" -> "s9" [] s = "s3" -> ""]}

Scene(n, first) ==
    [name |-> n, description |-> "", first_sample_token |-> first]

SceneTables ==
    {<<Scene("scene-0001", "s1")>>,
     <<Scene("scene-0001", "s1"), Scene("scene-0002", "s3")>>,
     <<Scene("scene-0001", "s2"), Scene("scene-0002", "s1")>>}

SensorTable ==
    <<[token |-> "sn_lidar", channel |-> "LIDAR_TOP", modality |-> "lidar"],
      [token |-> "sn_cam", channel |-> "CAM_FRONT", modality |-> "camera"],
      [token |-> "sn_radar", channel |-> "RADAR_FRONT", modality |-> "radar"]>>

Calibrated(tok, sn, t, r) ==
    [token |-> tok, sensor_token |-> sn, translation |-> t, rotation |-> r]

\* cs_lidar and cs_lidar2 calibrate the same channel differently;
\* cs_orphan names a sensor that is not in the sensor table
CalibratedSensorTable ==
    <<Calibrated("cs_lidar", "sn_lidar", <<1, 0, 2>>, RotZ90),
      Calibrated("cs_lidar2", "sn_lidar", <<0, 1, 2>>, RotIdentity),
      Calibrated("cs_cam", "sn_cam", <<2, 0, 1>>, RotX90),
      Calibrated("cs_radar", "sn_radar", <<3, 0, 0>>, RotIdentity),
      Calibrated("cs_orphan", "sn_none", <<0, 0, 0>>, RotIdentity)>>

EgoPoseTable ==
    <<[token |-> "ep1", translation |-> <<10, 5, 0>>, rotation |-> RotIdentity],
      [token |-> "ep2", translation |-> <<12, 5, 0>>, rotation |-> RotZ90],
      [token |-> "ep3", translation |-> <<12, 7, 0>>, rotation |-> RotZ90]>>

SampleData(s, cs, ep, file, key) ==
    [token |-> file, sample_token |-> s, calibrated_sensor_token |-> cs,
     ego_pose_token |-> ep, filename |-> file,
     timestamp |-> 1000000 + (IF key THEN 0 ELSE 500000), is_key_frame |-> key]

\* a well-formed table: a lidar and a camera key frame per sample, and sweeps
SampleDataPlain ==
    <<SampleData("s1", "cs_lidar", "ep1", "s1/lidar", TRUE),
      SampleData("s2", "cs_lidar", "ep2", "s2/lidar", TRUE),
      SampleData("s1", "cs_cam", "ep1", "s1/cam", TRUE),
      SampleData("s1", "cs_lidar", "ep1", "s1/sweep", FALSE),
      SampleData("s3", "cs_cam", "ep3", "s3/cam", TRUE),
      SampleData("s2", "cs_cam", "ep2", "s2/cam", TRUE),
      SampleData("s3", "cs_lidar", "ep3", "s3/lidar", TRUE)>>

\* the lidar is recalibrated between records, and samples hold two records
\* of one channel
SampleDataRecalibrated ==
    <<SampleData("s1", "cs_lidar", "ep1", "s1/lidar_a", TRUE),
      SampleData("s1", "cs_lidar2", "ep1", "s1/lidar_b", TRUE),
      SampleData("s2", "cs_radar", "ep2", "s2/radar", TRUE),
      SampleData("s2", "cs_lidar2", "ep2", "s2/lidar", TRUE),
      SampleData("s3", "cs_cam", "ep3", "s3/cam_a", TRUE),
      SampleData("s3", "cs_lidar2", "ep3", "s3/lidar", TRUE),
      SampleData("s3", "cs_cam", "ep3", "s3/cam_b", TRUE)>>

\* s1's lidar names an ego pose that does not exist, s2 has no key frame,
\* s3 names a calibration that does not exist
SampleDataDangling ==
    <<SampleData("s1", "cs_cam", "ep1", "s1/cam", TRUE),
      SampleData("s1", "cs_lidar", "ep9", "s1/lidar", TRUE),
      SampleData("s2", "cs_lidar", "ep2", "s2/sweep", FALSE),
      SampleData("s3", "cs_none", "ep3", "s3/cam", TRUE)>>

\* s2's camera calibration names a sensor that does not exist, and a record
\* belongs to s9, which is no sample
SampleDataOrphan ==
    <<SampleData("s1", "cs_lidar", "ep1", "s1/lidar", TRUE),
      SampleData("s2", "cs_lidar", "ep2", "s2/lidar", TRUE),
      SampleData("s2", "cs_orphan", "ep2", "s2/cam", TRUE),
      SampleData("s9", "cs_cam", "ep1", "s9/cam", TRUE),
      SampleData("s3", "cs_lidar2", "ep3", "s3/lidar", TRUE)>>

Annotation(tok, s, inst, attrs, vis, t, r, size) ==
    [token |-> tok, sample_token |-> s, instance_token |-> inst,
     attribute_tokens |-> attrs, visibility_token |-> vis,
     translation |-> t, rotation |-> r, size |-> size]

\* s1 has two annotations that are not adjacent in the table, s2 one, s3 none
AnnotationsPlain ==
    <<Annotation("a1", "s1", "i_car", <<"at_moving">>, "v4",
                 <<10, 5, 0>>, RotIdentity, <<2, 5, 1>>),
      Annotation("a2", "s2", "i_ped", <<>>, "v1",
                 <<14, 6, 0>>, RotZ90, <<1, 1, 2>>),
      Annotation("a3", "s1", "i_ped", <<"at_standing", "at_rider">>, "v2",
                 <<11, 8, 1>>, RotX90, <<1, 1, 2>>)>>

\* s1: an attribute of an unknown group; s2: an instance that does not
\* exist; s3: a visibility token that does not exist
AnnotationsUnknown ==
    <<Annotation("a1", "s1", "i_car", <<"at_moving", "at_unknown">>, "v4",
                 <<10, 5, 0>>, RotIdentity, <<2, 5, 1>>),
      Annotation("a2", "s2", "i_none", <<>>, "v1",
                 <<14, 6, 0>>, RotZ90, <<1, 1, 2>>),
      Annotation("a3", "s3", "i_ped", <<"at_standing">>, "v9",
                 <<11, 8, 1>>, RotX90, <<1, 1, 2>>)>>

\* s1: an attribute token that does not exist; s2: an instance whose
\* category does not exist; s3: an attribute name without a separator
AnnotationsDangling ==
    <<Annotation("a1", "s1", "i_car", <<"at_none">>, "v4",
                 <<10, 5, 0>>, RotIdentity, <<2, 5, 1>>),
      Annotation("a2", "s2", "i_stray", <<>>, "v1",
                 <<14, 6, 0>>, RotZ90, <<1, 1, 2>>),
      Annotation("a3", "s3", "i_ped", <<"at_nodot">>, "v2",
                 <<11, 8, 1>>, RotX90, <<1, 1, 2>>)>>

InstanceTable ==
    <<[token |-> "i_car", category_token |-> "c_car"],
      [token |-> "i_ped", category_token |-> "c_ped"],
      [token |-> "i_stray", category_token |-> "c_none"]>>

CategoryTable ==
    <<[token |-> "c_car", name |-> "vehicle.car"],
      [token |-> "c_ped", name |-> "human.pedestrian.adult"]>>

AttributeTable ==
    <<[token |-> "at_moving", name |-> AttrVehicleMoving],
      [token |-> "at_parked", name |-> AttrVehicleParked],
      [token |-> "at_rider", name |-> AttrCycleRider],
      [token |-> "at_standing", name |-> AttrPedestrianStanding],
      [token |-> "at_unknown", name |-> AttrUnknownState],
      [token |-> "at_twodots", name |-> AttrTwoDots],
      [token |-> "at_nodot", name |-> AttrNoDot]>>

VisibilityTable ==
    <<[token |-> "v1", level |-> "v0-40"],
      [token |-> "v2", level |-> "v40-60"],
      [token |-> "v4", level |-> "v80-100"]>>

\* the sample_data and sample_annotation tables that occur together
DataTables ==
    {<<SampleDataPlain, AnnotationsPlain>>,
     <<SampleDataRecalibrated, AnnotationsPlain>>,
     <<SampleDataDangling, AnnotationsPlain>>,
     <<SampleDataOrphan, AnnotationsPlain>>,
     <<SampleDataPlain, AnnotationsUnknown>>,
     <<SampleDataPlain, AnnotationsDangling>>}

\* the listings of the root directory with the table files every subset lacks
Listings ==
    {<<<<SubsetMini>>, {}>>,
     <<<<SubsetTest>>, {}>>,
     <<<<SubsetTest>>, AnnotationFiles>>,
     <<<<SubsetTest, SubsetMini>>, AnnotationFiles>>,
     <<<<SubsetMini, SubsetTest>>, {}>>,
     <<<<SubsetTestDev>>, {}>>,
     <<<<SubsetMini>>, {"ego_pose"}>>}

Disk(listing, absent, nxt, scenes, data) ==
    [listing |-> listing,
     absent |-> absent,
     tables |-> [sample |-> SampleTable(nxt),
                 sample_data |-> data[1],
                 calibrated_sensor |-> CalibratedSensorTable,
                 ego_pose |-> EgoPoseTable,
                 sensor |-> SensorTable,
                 scene |-> scenes,
                 sample_annotation |-> data[2],
                 instance |-> InstanceTable,
                 category |-> CategoryTable,
                 attribute |-> AttributeTable,
                 visibility |-> VisibilityTable]]

Disks ==
    {Disk(l[1], l[2], nxt, scenes, data) :
        l \in Listings, nxt \in NextLinks, scenes \in SceneTables,
        data \in DataTables}

----------------------------------------------------------------------------
(* The loader: nuScenes, _generate_segments, _get_annotation_info,         *)
(* _load_frame_and_sensor                                                  *)

\* subset.startswith("test") in place of endswith
IsTest_prefix(subset) ==
    /\ Len(subset) >= Len(Str_test)
    /\ SubSeq(subset, 1, Len(Str_test)) = Str_test

\* is_test = subset.endswith("test")
IsTest(subset) == EndsWith(subset, Str_test)

\* the table files _get_annotation_info opens, in the order it opens them
ReadOrder(test) ==
    <<"sample", "sample_data", "calibrated_sensor", "ego_pose", "sensor",
      "scene">>
    \o (IF test THEN <<>>
        ELSE <<"sample_annotation", "instance", "category", "attribute",
               "visibility">>)

\* the files _get_annotation_info has tried to open when it returns or
\* raises: all of them, or those up to the first absent one
FilesOpened(absent, test) ==
    LET order == ReadOrder(test)
        missing == {i \in 1..Len(order) : order[i] \in absent}
        stop == IF missing = {} THEN Len(order)
                ELSE CHOOSE i \in missing : \A j \in missing : i <= j
    IN  {order[i] : i \in 1..stop}

_get_annotation_info(d, test) ==
    IF \E i \in 1..Len(ReadOrder(test)) : ReadOrder(test)[i] \in d.absent
    THEN Err("FileNotFoundError")
    ELSE
      LET base ==
              [samples |-> get_info_with_token(d.tables.sample),
               frame_data |->
                   get_info_with_determined_token(d.tables.sample_data, FALSE),
               calibrated_sensors |->
                   get_info_with_token(d.tables.calibrated_sensor),
               ego_poses |-> get_info_with_token(d.tables.ego_pose),
               sensor |-> get_info_with_token(d.tables.sensor),
               scenes |-> d.tables.scene]
          more ==
              [sample_annotations |->
                   get_info_with_determined_token(d.tables.sample_annotation,
                                                  TRUE),
               instance |-> get_info_with_token(d.tables.instance),
               category |-> get_info_with_token(d.tables.category),
               attribute |-> get_info_with_token(d.tables.attribute),
               visibility |-> get_info_with_token(d.tables.visibility)]
      IN  Ok(IF test THEN base
             ELSE [k \in DOMAIN base \cup DOMAIN more |->
                      IF k \in DOMAIN base THEN base[k] ELSE more[k]])

\* FusionSegment(f"{subset}-{scene['name']}") with its description
NewSegment(subset, scene) ==
    [name |-> <<subset, scene.name>>,
     description |-> scene.description,
     sensors |-> EmptyDict,
     frames |-> <<>>]

NoSegment ==
    [name |-> <<>>, description |-> "", sensors |-> EmptyDict, frames |-> <<>>]

\* a loop that also stops once the segment holds a frame per sample
WhileCond_capped(seg, token) ==
    token # "" /\ Len(seg.frames) < Len(disk.tables.sample)

\* while current_frame_token:
WhileCond(seg, token) == token # ""

\* the link of the next sample taken in place of the sample's own
NextToken_skip(info, token) ==
    LET n == info.samples[token].next
    IN  IF n \in DOMAIN info.samples THEN info.samples[n].next ELSE n

\* annotation_info["samples"][current_frame_token]["next"]
NextToken(info, token) == info.samples[token].next

\* the sensor added without the membership test
RegisterSensor_always(sensors, sensor_type, sensor_name, calibrated_sensor_info) ==
    DictSet(sensors, sensor_name,
            get_sensor(sensor_type, sensor_name, calibrated_sensor_info))

\* if sensor_name not in segment.sensors: segment.sensors.add(get_sensor(...))
RegisterSensor(sensors, sensor_type, sensor_name, calibrated_sensor_info) ==
    IF sensor_name \notin DOMAIN sensors
    THEN DictSet(sensors, sensor_name,
                 get_sensor(sensor_type, sensor_name, calibrated_sensor_info))
    ELSE sensors

\* Data(os.path.join(subset_path, filename), timestamp=timestamp / 10 ** 6):
\* the timestamp in whole seconds and the microseconds left over
Data(subset, sensor_frame) ==
    [path |-> <<subset, sensor_frame.filename>>,
     timestamp |-> [s |-> sensor_frame.timestamp \div 1000000,
                    us |-> sensor_frame.timestamp % 1000000]]

\* the modality test left out
NeedsLabels_any(test, sensor_type) == ~test

\* if not is_test and sensor_type == "lidar":
NeedsLabels(test, sensor_type) == ~test /\ sensor_type = "lidar"

\* the record's own calibration in place of the registered sensor's
LidarToEgo_own(sensors, sensor_name, calibrated_sensor_info) ==
    Transform3D(calibrated_sensor_info.translation,
                calibrated_sensor_info.rotation)

\* segment.sensors[sensor_name].extrinsics
LidarToEgo(sensors, sensor_name, calibrated_sensor_info) ==
    sensors[sensor_name].extrinsics

\* data.label.box3d = labels
SetBox3d(data, labels) ==
    [path |-> data.path, timestamp |-> data.timestamp, box3d |-> labels]

\* frame.setdefault(sensor_name, data): an earlier record is kept
FrameSet_keep(fr, sensor_name, data) ==
    IF sensor_name \in DOMAIN fr THEN fr ELSE DictSet(fr, sensor_name, data)

\* frame[sensor_name] = data
FrameSet(fr, sensor_name, data) == DictSet(fr, sensor_name, data)

\* One pass of the loop body of _load_frame_and_sensor.  The result carries
\* the sensors of the segment as the pass leaves them, also when it raises.
LoadSensorFrame(sensors, fr, sensor_frame, token, info, subset, test) ==
    IF sensor_frame.calibrated_sensor_token \notin DOMAIN info.calibrated_sensors
    THEN [ok |-> FALSE, err |-> "KeyError:calibrated_sensors",
          sensors |-> sensors]
    ELSE
    LET calibrated_sensor_info ==
            info.calibrated_sensors[sensor_frame.calibrated_sensor_token]
    IN
    IF calibrated_sensor_info.sensor_token \notin DOMAIN info.sensor
    THEN [ok |-> FALSE, err |-> "KeyError:sensor", sensors |-> sensors]
    ELSE
    LET common_sensor == info.sensor[calibrated_sensor_info.sensor_token]
        sensor_name == common_sensor.channel
        sensor_type == common_sensor.modality
        registered == RegisterSensor(sensors, sensor_type, sensor_name,
                                     calibrated_sensor_info)
        data == Data(subset, sensor_frame)
    IN
    IF ~NeedsLabels(test, sensor_type)
    THEN [ok |-> TRUE, sensors |-> registered,
          frame |-> FrameSet(fr, sensor_name, data)]
    ELSE
    IF sensor_frame.ego_pose_token \notin DOMAIN info.ego_poses
    THEN [ok |-> FALSE, err |-> "KeyError:ego_poses", sensors |-> registered]
    ELSE
    LET labels == _get_labels(token,
                              info.ego_poses[sensor_frame.ego_pose_token],
                              LidarToEgo(registered, sensor_name,
                                         calibrated_sensor_info),
                              info)
    IN
    IF ~labels.ok
    THEN [ok |-> FALSE, err |-> labels.err, sensors |-> registered]
    ELSE [ok |-> TRUE, sensors |-> registered,
          frame |-> FrameSet(fr, sensor_name, SetBox3d(data, labels.val))]

\* the exception caught around the loops and the dataset returned as it is
Raise_partial(e) ==
    /\ pc' = "done"
    /\ error' = NoError
    /\ returned' = <<dataset>>
    /\ UNCHANGED dataset

\* An exception nothing catches: it leaves nuScenes() and no value is
\* returned.
Raise(e) ==
    /\ pc' = "error"
    /\ error' = e
    /\ UNCHANGED <<returned, dataset>>

Subset == disk.listing[subsetIdx]
SensorFrames == annotation_info.frame_data[current_frame_token]

LoaderInit ==
    /\ disk \in Disks
    /\ pc = "for_subset"
    /\ subsetIdx = 1
    /\ is_test = FALSE
    /\ annotation_info = EmptyDict
    /\ opened = {}
    /\ sceneIdx = 0
    /\ segment = NoSegment
    /\ current_frame_token = ""
    /\ frame = EmptyDict
    /\ sfIdx = 0
    /\ dataset = EmptyDict
    /\ returned = NoDataset
    /\ error = NoError

\* for subset in os.listdir(root_path): _generate_segments up to its loop
GenerateSegments ==
    /\ pc = "for_subset"
    /\ subsetIdx <= Len(disk.listing)
    /\ \E r \in {_get_annotation_info(disk, IsTest(Subset))} :
           /\ r.ok
           /\ annotation_info' = r.val
    /\ is_test' = IsTest(Subset)
    /\ opened' = FilesOpened(disk.absent, IsTest(Subset))
    /\ sceneIdx' = 1
    /\ pc' = "for_scene"
    /\ UNCHANGED <<disk, subsetIdx, segment, current_frame_token, frame,
                   sfIdx, dataset, returned, error, pure>>

\* a table file of the subset is absent
GenerateSegmentsFail ==
    /\ pc = "for_subset"
    /\ subsetIdx <= Len(disk.listing)
    /\ \E r \in {_get_annotation_info(disk, IsTest(Subset))} :
           /\ ~r.ok
           /\ Raise(r.err)
    /\ is_test' = IsTest(Subset)
    /\ opened' = FilesOpened(disk.absent, IsTest(Subset))
    /\ UNCHANGED <<disk, subsetIdx, annotation_info, sceneIdx, segment,
                   current_frame_token, frame, sfIdx, pure>>

\* return dataset
Return ==
    /\ pc = "for_subset"
    /\ subsetIdx > Len(disk.listing)
    /\ returned' = <<dataset>>
    /\ pc' = "done"
    /\ UNCHANGED <<disk, subsetIdx, is_test, annotation_info, opened, sceneIdx,
                   segment, current_frame_token, frame, sfIdx, dataset, error,
                   pure>>

\* for scene in annotation_info["scenes"]: a new segment
StartScene ==
    /\ pc = "for_scene"
    /\ sceneIdx <= Len(annotation_info.scenes)
    /\ segment' = NewSegment(Subset, annotation_info.scenes[sceneIdx])
    /\ current_frame_token' =
           annotation_info.scenes[sceneIdx].first_sample_token
    /\ pc' = "while"
    /\ UNCHANGED <<disk, subsetIdx, is_test, annotation_info, opened, sceneIdx,
                   frame, sfIdx, dataset, returned, error, pure>>

\* the scenes of the subset are exhausted: the next subset
EndSubset ==
    /\ pc = "for_scene"
    /\ sceneIdx > Len(annotation_info.scenes)
    /\ subsetIdx' = subsetIdx + 1
    /\ pc' = "for_subset"
    /\ UNCHANGED <<disk, is_test, annotation_info, opened, sceneIdx, segment,
                   current_frame_token, frame, sfIdx, dataset, returned, error,
                   pure>>

\* the while condition holds: _load_frame_and_sensor is called
StartFrame ==
    /\ pc = "while"
    /\ WhileCond(segment, current_frame_token)
    /\ Len(segment.frames) < MaxFrames
    /\ current_frame_token \in DOMAIN annotation_info.frame_data
    /\ frame' = EmptyDict
    /\ sfIdx' = 1
    /\ pc' = "for_sensor_frame"
    /\ UNCHANGED <<disk, subsetIdx, is_test, annotation_info, opened, sceneIdx,
                   segment, current_frame_token, dataset, returned, error, pure>>

\* the sample has no entry in the sample-data index
StartFrameFail ==
    /\ pc = "while"
    /\ WhileCond(segment, current_frame_token)
    /\ Len(segment.frames) < MaxFrames
    /\ current_frame_token \notin DOMAIN annotation_info.frame_data
    /\ Raise("KeyError:frame_data")
    /\ UNCHANGED <<disk, subsetIdx, is_test, annotation_info, opened, sceneIdx,
                   segment, current_frame_token, frame, sfIdx, pure>>

\* the while condition fails: yield segment, dataset.add_segment(segment)
YieldSegment ==
    /\ pc = "while"
    /\ ~WhileCond(segment, current_frame_token)
    /\ dataset' = DictSet(dataset, segment.name, segment)
    /\ sceneIdx' = sceneIdx + 1
    /\ pc' = "for_scene"
    /\ UNCHANGED <<disk, subsetIdx, is_test, annotation_info, opened, segment,
                   current_frame_token, frame, sfIdx, returned, error, pure>>

\* for sensor_frame in annotation_info["frame_data"][current_frame_token]
SensorFrame ==
    /\ pc = "for_sensor_frame"
    /\ sfIdx <= Len(SensorFrames)
    /\ \E r \in {LoadSensorFrame(segment.sensors, frame, SensorFrames[sfIdx],
                                  current_frame_token, annotation_info, Subset,
                                  is_test)} :
           /\ r.ok
           /\ segment' = [segment EXCEPT !.sensors = r.sensors]
           /\ frame' = r.frame
    /\ sfIdx' = sfIdx + 1
    /\ UNCHANGED <<disk, pc, subsetIdx, is_test, annotation_info, opened,
                   sceneIdx, current_frame_token, dataset, returned, error,
                   pure>>

\* a lookup of the loop body raises
SensorFrameFail ==
    /\ pc = "for_sensor_frame"
    /\ sfIdx <= Len(SensorFrames)
    /\ \E r \in {LoadSensorFrame(segment.sensors, frame, SensorFrames[sfIdx],
                                  current_frame_token, annotation_info, Subset,
                                  is_test)} :
           /\ ~r.ok
           /\ segment' = [segment EXCEPT !.sensors = r.sensors]
           /\ Raise(r.err)
    /\ UNCHANGED <<disk, subsetIdx, is_test, annotation_info, opened, sceneIdx,
                   current_frame_token, frame, sfIdx, pure>>

\* segment.append(frame), then the `next` link of the sample
AppendFrame ==
    /\ pc = "for_sensor_frame"
    /\ sfIdx > Len(SensorFrames)
    /\ current_frame_token \in DOMAIN annotation_info.samples
    /\ segment' = [segment EXCEPT !.frames = Append(@, frame)]
    /\ current_frame_token' = NextToken(annotation_info, current_frame_token)
    /\ frame' = EmptyDict
    /\ sfIdx' = 0
    /\ pc' = "while"
    /\ UNCHANGED <<disk, subsetIdx, is_test, annotation_info, opened, sceneIdx,
                   dataset, returned, error, pure>>

\* the frame is appended but the token is not in the samples table
AppendFrameFail ==
    /\ pc = "for_sensor_frame"
    /\ sfIdx > Len(SensorFrames)
    /\ current_frame_token \notin DOMAIN annotation_info.samples
    /\ segment' = [segment EXCEPT !.frames = Append(@, frame)]
    /\ Raise("KeyError:samples")
    /\ UNCHANGED <<disk, subsetIdx, is_test, annotation_info, opened, sceneIdx,
                   current_frame_token, frame, sfIdx, pure>>

Init ==
    /\ LoaderInit
    /\ pure = [phase |-> "unused"]

Next ==
    \/ GenerateSegments
    \/ GenerateSegmentsFail
    \/ Return
    \/ StartScene
    \/ EndSubset
    \/ StartFrame
    \/ StartFrameFail
    \/ YieldSegment
    \/ SensorFrame
    \/ SensorFrameFail
    \/ AppendFrame
    \/ AppendFrameFail

Spec == Init /\ [][Next]_vars

\* The directories with one non-test subset: every shape of `next` chain,
\* over well-formed and malformed tables.
ChainDisks ==
    {Disk(l[1], l[2], nxt, scenes, data) :
        l \in {<<<<SubsetMini>>, {}>>, <<<<SubsetMini>>, {"ego_pose"}>>},
        nxt \in NextLinks,
        scenes \in SceneTables,
        data \in {<<SampleDataPlain, AnnotationsPlain>>,
                  <<SampleDataDangling, AnnotationsPlain>>,
                  <<SampleDataOrphan, AnnotationsPlain>>}}

ChainInit == Init /\ disk \in ChainDisks

\* The interpreter always takes the next step of the program.
FairSpec == ChainInit /\ [][Next]_vars /\ WF_vars(Next)

----------------------------------------------------------------------------
(* What the tables on disk say, read off the raw tables                    *)

HasRecord(table, tok) == \E i \in 1..Len(table) : table[i].token = tok
RecordOf(table, tok) ==
    table[CHOOSE i \in 1..Len(table) : table[i].token = tok]

\* the `next` link of a sample; a token that is no sample links nowhere
LinkOf(tok) ==
    IF HasRecord(disk.tables.sample, tok)
    THEN RecordOf(disk.tables.sample, tok).next
    ELSE ""

\* the k-th token met from `first` by following `next`
RECURSIVE Walk(_, _)
Walk(first, k) == IF k <= 1 THEN first ELSE Walk(LinkOf(first), k - 1)

\* the chain from `first` comes to an empty link
ChainEnds(first) == \E k \in 1..(Len(disk.tables.sample) + 1) : Walk(first, k) = ""

\* the number of samples on a chain that ends
ChainLen(first) ==
    (CHOOSE k \in 1..(Len(disk.tables.sample) + 1) :
         /\ Walk(first, k) = ""
         /\ \A j \in 1..(k - 1) : Walk(first, j) # "") - 1

\* the key-frame sample-data records of a sample, in table order
KeyFrames(tok) ==
    SelectSeq(disk.tables.sample_data,
              LAMBDA r : r.sample_token = tok /\ r.is_key_frame)

Calibration(r) ==
    RecordOf(disk.tables.calibrated_sensor, r.calibrated_sensor_token)
SensorOf(r) == RecordOf(disk.tables.sensor, Calibration(r).sensor_token)
Resolves(r) ==
    /\ HasRecord(disk.tables.calibrated_sensor, r.calibrated_sensor_token)
    /\ HasRecord(disk.tables.sensor, Calibration(r).sensor_token)

\* the sample_annotation records of a sample, in table order
AnnotationsOf(tok) ==
    SelectSeq(disk.tables.sample_annotation, LAMBDA a : a.sample_token = tok)

SceneNamed(n) ==
    disk.tables.scene[CHOOSE i \in 1..Len(disk.tables.scene) :
                          disk.tables.scene[i].name = n]

InScene == pc \in {"while", "for_sensor_frame"}
CurrentScene == disk.tables.scene[sceneIdx]
CurrentFirst == CurrentScene.first_sample_token

\* the frame was built from the first n key-frame records of sample tok:
\* it holds, per channel, the record that came last
FrameFrom(fr, sub, tok, n) ==
    LET recs == SubSeq(KeyFrames(tok), 1, n)
    IN  /\ DOMAIN fr = {SensorOf(recs[i]).channel : i \in 1..n}
        /\ \A ch \in DOMAIN fr :
             LET last == CHOOSE i \in 1..n :
                     /\ SensorOf(recs[i]).channel = ch
                     /\ \A j \in 1..n : SensorOf(recs[j]).channel = ch => j <= i
             IN  fr[ch].path = <<sub, recs[last].filename>>

\* the frame holds data of sample tok and of no other sample
FrameOfSample(fr, sub, tok) ==
    /\ fr # EmptyDict
    /\ \A ch \in DOMAIN fr :
         \E i \in 1..Len(KeyFrames(tok)) :
             fr[ch].path = <<sub, KeyFrames(tok)[i].filename>>

----------------------------------------------------------------------------
(* C1 *)

\* the frames of a segment are those of the first samples of the chain, one
\* frame per sample, in chain order
FramesFollowChain(seg, first) ==
    \A k \in 1..Len(seg.frames) :
        /\ Walk(first, k) # ""
        /\ FrameOfSample(seg.frames[k], seg.name[1], Walk(first, k))

\* C1: during a traversal the i-th frame of the segment is built from the
\* i-th sample of the scene's `next` chain and the token in hand is the next
\* sample of the chain; a yielded segment holds exactly one frame per sample
\* of the chain, in chain order, the chain ending at the first empty `next`.
C1_TraversalFollowsChain ==
    /\ InScene =>
         /\ FramesFollowChain(segment, CurrentFirst)
         /\ current_frame_token = Walk(CurrentFirst, Len(segment.frames) + 1)
    /\ \A n \in DOMAIN dataset :
         LET first == SceneNamed(n[2]).first_sample_token
         IN  /\ ChainEnds(first)
             /\ Len(dataset[n].frames) = ChainLen(first)
             /\ FramesFollowChain(dataset[n], first)

\* a three-sample scene of a well-formed subset has been yielded
C1_Witness ==
    /\ \E n \in DOMAIN dataset : Len(dataset[n].frames) = 3
    /\ pc = "done"

----------------------------------------------------------------------------
(* C10 *)

\* C10: at every point of a traversal every channel that keys a data record
\* of the segment's frames, or of the frame being built, is registered in
\* segment.sensors; a frame holds one record per channel, the one of the
\* sensor-data record of that channel that comes last in table order.
C10_ChannelsRegistered ==
    (InScene \/ pc = "error") /\ segment # NoSegment =>
        /\ \A k \in 1..Len(segment.frames) :
             DOMAIN segment.frames[k] \subseteq DOMAIN segment.sensors
        /\ DOMAIN frame \subseteq DOMAIN segment.sensors
        /\ InScene =>
             /\ \A k \in 1..Len(segment.frames) :
                  FrameFrom(segment.frames[k], Subset, Walk(CurrentFirst, k),
                            Len(KeyFrames(Walk(CurrentFirst, k))))
             /\ pc = "for_sensor_frame" =>
                  FrameFrom(frame, Subset, current_frame_token, sfIdx - 1)

\* a frame was finished from a sample with two records of one channel
C10_Witness ==
    /\ InScene
    /\ \E k \in 1..Len(segment.frames) :
         Cardinality(DOMAIN segment.frames[k])
             < Len(KeyFrames(Walk(CurrentFirst, k)))

----------------------------------------------------------------------------
(* C3 *)

\* the channels of the sensor-data records the traversal of the current
\* scene has gone through
ChannelsSeen ==
    UNION {{SensorOf(KeyFrames(Walk(CurrentFirst, k))[i]).channel :
               i \in 1..Len(KeyFrames(Walk(CurrentFirst, k)))} :
           k \in 1..Len(segment.frames)}
    \cup (IF pc = "for_sensor_frame"
          THEN {SensorOf(KeyFrames(current_frame_token)[i]).channel :
                   i \in 1..(sfIdx - 1)}
          ELSE {})

\* C3: within a segment an entry of segment.sensors, once registered, is
\* neither removed nor replaced, whatever records of its channel follow, and
\* the entries are those of the channels that have appeared, one each.
C3_RegistrationIdempotent ==
    /\ [](InScene =>
            /\ DOMAIN segment.sensors = ChannelsSeen
            /\ \A ch \in DOMAIN segment.sensors :
                 segment.sensors[ch].name = ch)
    /\ [][InScene =>
              \A ch \in DOMAIN segment.sensors :
                  /\ ch \in DOMAIN segment'.sensors
                  /\ segment'.sensors[ch] = segment.sensors[ch]]_vars

\* a channel is met again with another calibration than the registered one
C3_Witness ==
    /\ pc = "for_sensor_frame"
    /\ sfIdx > 1
    /\ LET r == KeyFrames(current_frame_token)[sfIdx - 1]
       IN  /\ SensorOf(r).channel \in DOMAIN segment.sensors
           /\ segment.sensors[SensorOf(r).channel].extrinsics
                  # Transform3D(Calibration(r).translation,
                                Calibration(r).rotation)

----------------------------------------------------------------------------
(* C2, C4 *)

ModalityOf(ch) ==
    disk.tables.sensor[CHOOSE i \in 1..Len(disk.tables.sensor) :
                           disk.tables.sensor[i].channel = ch].modality

HasBox3d(data) == "box3d" \in DOMAIN data

\* every frame the loader holds, with the subset and the sample it is of
FramesHeld ==
    UNION {{[frame |-> dataset[n].frames[k], subset |-> n[1],
             token |-> Walk(SceneNamed(n[2]).first_sample_token, k)] :
               k \in 1..Len(dataset[n].frames)} :
           n \in DOMAIN dataset}
    \cup (IF InScene
          THEN {[frame |-> segment.frames[k], subset |-> Subset,
                 token |-> Walk(CurrentFirst, k)] : k \in 1..Len(segment.frames)}
          ELSE {})
    \cup (IF pc = "for_sensor_frame"
          THEN {[frame |-> frame, subset |-> Subset,
                 token |-> current_frame_token]}
          ELSE {})

\* C2: in a subset whose name ends in "test" no data record of any frame has
\* box3d labels, the annotation tables are neither opened nor looked up, and
\* the load does not fail for their absence.
C2_TestSubsetUnlabelled ==
    /\ \A f \in FramesHeld :
         EndsWith(f.subset, Str_test) =>
             \A ch \in DOMAIN f.frame : ~HasBox3d(f.frame[ch])
    /\ (pc \notin {"for_subset", "done"} \/ error # NoError)
       /\ subsetIdx <= Len(disk.listing) /\ EndsWith(Subset, Str_test) =>
         /\ opened \cap AnnotationFiles = {}
         /\ DOMAIN annotation_info \cap
                {"sample_annotations", "instance", "category", "attribute",
                 "visibility"} = {}
         /\ error = "FileNotFoundError" =>
                ~(disk.absent \subseteq AnnotationFiles)
         /\ error \notin {"KeyError:instance", "KeyError:category",
                          "KeyError:attribute", "KeyError:visibility",
                          "KeyError:_ATTRIBUTE_KEYS", "ValueError",
                          "KeyError:ego_poses"}

\* a test subset without annotation tables was loaded and holds lidar data
C2_Witness ==
    /\ pc = "done"
    /\ disk.absent = AnnotationFiles
    /\ \E n \in DOMAIN returned[1] :
         /\ EndsWith(n[1], Str_test)
         /\ \E k \in 1..Len(returned[1][n].frames) :
              "LIDAR_TOP" \in DOMAIN returned[1][n].frames[k]

\* C4: in a subset whose name does not end in "test" a data record has box3d
\* labels exactly if its channel is a lidar; the labels are those of the
\* sample_annotation records of the frame's sample, one each, in table order
\* (none when the sample has no annotation).
C4_LidarLabelled ==
    \A f \in FramesHeld :
        ~EndsWith(f.subset, Str_test) =>
            \A ch \in DOMAIN f.frame :
                /\ HasBox3d(f.frame[ch]) <=> ModalityOf(ch) = "lidar"
                /\ HasBox3d(f.frame[ch]) =>
                     LET labels == f.frame[ch].box3d
                         anns == AnnotationsOf(f.token)
                     IN  /\ Len(labels) = Len(anns)
                         /\ \A j \in 1..Len(anns) :
                              /\ labels[j].instance = anns[j].instance_token
                              /\ labels[j].size = <<anns[j].size[2],
                                                    anns[j].size[1],
                                                    anns[j].size[3]>>

\* a non-test segment holds a lidar record with two labels, a lidar record
\* with none and a labelless camera record
C4_Witness ==
    \E n \in DOMAIN dataset :
        /\ ~EndsWith(n[1], Str_test)
        /\ \E k \in 1..Len(dataset[n].frames) :
             /\ "LIDAR_TOP" \in DOMAIN dataset[n].frames[k]
             /\ Len(dataset[n].frames[k]["LIDAR_TOP"].box3d) = 2
        /\ \E k \in 1..Len(dataset[n].frames) :
             /\ "LIDAR_TOP" \in DOMAIN dataset[n].frames[k]
             /\ dataset[n].frames[k]["LIDAR_TOP"].box3d = <<>>
             /\ "CAM_FRONT" \in DOMAIN dataset[n].frames[k]
             /\ ~HasBox3d(dataset[n].frames[k]["CAM_FRONT"])

----------------------------------------------------------------------------
(* C9 *)

\* the first sensor-data record of channel ch that a traversal from `first`
\* meets within its first n samples
FirstRecordOf(first, n, ch) ==
    LET Of(k) == {i \in 1..Len(KeyFrames(Walk(first, k))) :
                     /\ Resolves(KeyFrames(Walk(first, k))[i])
                     /\ SensorOf(KeyFrames(Walk(first, k))[i]).channel = ch}
        k0 == CHOOSE k \in 1..n :
                  /\ Of(k) # {}
                  /\ \A j \in 1..(k - 1) : Of(j) = {}
        i0 == CHOOSE i \in Of(k0) : \A j \in Of(k0) : i <= j
    IN  KeyFrames(Walk(first, k0))[i0]

\* the record a data record was made from
RecordMade(tok, data) ==
    LET recs == KeyFrames(tok)
    IN  recs[CHOOSE i \in 1..Len(recs) : recs[i].filename = data.path[2]]

\* the labels of sample tok seen from ego pose `ep` through calibration `cal`
LabelsThrough(tok, ep, cal) ==
    _get_labels(tok, RecordOf(disk.tables.ego_pose, ep),
                Transform3D(cal.translation, cal.rotation),
                _get_annotation_info(disk, FALSE).val).val

\* the frames of the scene being traversed, with their place in the chain
FramesOfScene ==
    {[frame |-> segment.frames[k], k |-> k] : k \in 1..Len(segment.frames)}
    \cup (IF pc = "for_sensor_frame"
          THEN {[frame |-> frame, k |-> Len(segment.frames) + 1]}
          ELSE {})

\* C9: the labels of a lidar data record are computed through the
\* calibration of the first sensor-data record of its channel in the
\* segment's traversal, also when the record names another calibration.
C9_FirstCalibrationUsed ==
    InScene =>
        \A f \in FramesOfScene :
            \A ch \in DOMAIN f.frame :
                HasBox3d(f.frame[ch]) =>
                    LET tok == Walk(CurrentFirst, f.k)
                        rec == RecordMade(tok, f.frame[ch])
                        reg == FirstRecordOf(CurrentFirst, f.k, ch)
                    IN  f.frame[ch].box3d =
                            LabelsThrough(tok, rec.ego_pose_token,
                                          Calibration(reg))

\* a labelled lidar record names another calibration than the registered
\* one, and its own calibration would have given other labels
C9_Witness ==
    /\ InScene
    /\ \E f \in FramesOfScene :
         \E ch \in DOMAIN f.frame :
             /\ HasBox3d(f.frame[ch])
             /\ LET tok == Walk(CurrentFirst, f.k)
                    rec == RecordMade(tok, f.frame[ch])
                IN  f.frame[ch].box3d #
                        LabelsThrough(tok, rec.ego_pose_token, Calibration(rec))

----------------------------------------------------------------------------
(* C6 *)

HasDot(name) == \E i \in 1..Len(name) : name[i] = "."
LastDot(name) ==
    CHOOSE i \in 1..Len(name) :
        /\ name[i] = "."
        /\ \A j \in (i + 1)..Len(name) : name[j] # "."
GroupOf(name) == SubSeq(name, 1, LastDot(name) - 1)
StateOf(name) == SubSeq(name, LastDot(name) + 1, Len(name))
KnownGroups == {Str_vehicle, Str_cycle, Str_pedestrian}

AttributeResolves(tables, tok) ==
    /\ HasRecord(tables.attribute, tok)
    /\ HasDot(RecordOf(tables.attribute, tok).name)
    /\ GroupOf(RecordOf(tables.attribute, tok).name) \in KnownGroups

AnnotationResolves(tables, a) ==
    /\ HasRecord(tables.instance, a.instance_token)
    /\ HasRecord(tables.category,
                 RecordOf(tables.instance, a.instance_token).category_token)
    /\ \A i \in 1..Len(a.attribute_tokens) :
         AttributeResolves(tables, a.attribute_tokens[i])
    /\ HasRecord(tables.visibility, a.visibility_token)

\* no lookup made for the sample can fail
SampleLoads(tok, test) ==
    /\ HasRecord(disk.tables.sample, tok)
    /\ KeyFrames(tok) # <<>>
    /\ \A i \in 1..Len(KeyFrames(tok)) :
         LET r == KeyFrames(tok)[i]
         IN  /\ Resolves(r)
             /\ ~test /\ SensorOf(r).modality = "lidar" =>
                  /\ HasRecord(disk.tables.ego_pose, r.ego_pose_token)
                  /\ \A j \in 1..Len(AnnotationsOf(tok)) :
                       AnnotationResolves(disk.tables, AnnotationsOf(tok)[j])

SubsetLoads(sub) ==
    LET test == EndsWith(sub, Str_test)
    IN  /\ disk.absent \subseteq (IF test THEN AnnotationFiles ELSE {})
        /\ \A s \in 1..Len(disk.tables.scene) :
             LET first == disk.tables.scene[s].first_sample_token
             IN  /\ ChainEnds(first)
                 /\ \A k \in 1..ChainLen(first) :
                      SampleLoads(Walk(first, k), test)

\* C6: the load returns nothing when it fails, and what it returns holds a
\* whole segment for every scene of every subset, none of whose lookups
\* could fail; no dataset is returned otherwise.
C6_AllOrNothing ==
    /\ pc = "error" <=> error # NoError
    /\ pc = "error" => returned = NoDataset
    /\ pc = "done" <=> returned # NoDataset
    /\ pc = "done" =>
         /\ returned = <<dataset>>
         /\ \A i \in 1..Len(disk.listing) : SubsetLoads(disk.listing[i])
         /\ DOMAIN returned[1] =
                {<<disk.listing[i], disk.tables.scene[s].name>> :
                    i \in 1..Len(disk.listing),
                    s \in 1..Len(disk.tables.scene)}
         /\ \A n \in DOMAIN returned[1] :
              Len(returned[1][n].frames) =
                  ChainLen(SceneNamed(n[2]).first_sample_token)

\* the load fails after segments were added to the dataset
C6_Witness ==
    /\ pc = "error"
    /\ DOMAIN dataset # {}
    /\ \E n \in DOMAIN dataset : Len(dataset[n].frames) > 0
    /\ returned = NoDataset

----------------------------------------------------------------------------
(* C8 *)

\* C8: the traversal of a scene whose chain comes to an empty `next` ends,
\* by yielding the segment after as many passes as the chain has samples or
\* by an error; the traversal of a scene whose chain does not is left by an
\* error only, and its segment is never yielded.
C8_TerminatesIffChainEnds ==
    /\ (pc = "while" /\ segment.frames = <<>> /\ ChainEnds(CurrentFirst))
           ~> (pc \in {"for_scene", "error"})
    /\ [][/\ InScene /\ ~ChainEnds(CurrentFirst) =>
               pc' \in {"while", "for_sensor_frame", "error"}
          /\ pc = "while" /\ pc' = "for_scene" =>
               /\ ChainEnds(CurrentFirst)
               /\ Len(segment.frames) = ChainLen(CurrentFirst)
               /\ segment.name \in DOMAIN dataset']_vars

\* a traversal has gone round a cycle: the segment holds more frames than
\* there are samples
C8_Witness ==
    /\ InScene
    /\ ~ChainEnds(CurrentFirst)
    /\ Len(segment.frames) > Len(disk.tables.sample)

----------------------------------------------------------------------------
(* The label functions on their own: _get_labeled_box and _get_labels      *)
(* applied to inputs drawn from small sets.                                *)

PureTables ==
    [instance |-> get_info_with_token(InstanceTable),
     category |-> get_info_with_token(CategoryTable),
     attribute |-> get_info_with_token(AttributeTable),
     visibility |-> get_info_with_token(VisibilityTable)]

PureInfo(annotations) ==
    [sample_annotations |->
         get_info_with_determined_token(annotations, TRUE),
     instance |-> PureTables.instance,
     category |-> PureTables.category,
     attribute |-> PureTables.attribute,
     visibility |-> PureTables.visibility]

AttributeTokens ==
    {"at_moving", "at_parked", "at_rider", "at_standing", "at_unknown",
     "at_twodots", "at_nodot", "at_none"}

AttributeTokenLists ==
    {<<>>} \cup {<<a>> : a \in AttributeTokens}
    \cup {<<a, b>> : a \in AttributeTokens, b \in AttributeTokens}

\* the annotations _get_labeled_box is applied to
BoxInputs ==
    {[fn |-> "_get_labeled_box",
      annotation |-> Annotation("a1", "s1", inst, attrs, vis,
                                <<10, 5, 0>>, RotZ90, <<2, 5, 1>>)] :
        inst \in {"i_car", "i_stray", "i_none"},
        attrs \in AttributeTokenLists,
        vis \in {"v1", "v4", "v9"}}

PureRotations == {RotIdentity, RotZ90, RotX90}
PureTranslations == {<<0, 0, 0>>, <<1, 2, 0>>, <<4, -1, 3>>}
PurePoses ==
    {[translation |-> t, rotation |-> r] :
        t \in PureTranslations, r \in PureRotations}

\* the ego poses, calibrations and annotation tables _get_labels is applied
\* to: the first annotation of s1 sits at the ego's position or elsewhere
LabelInputs ==
    {[fn |-> "_get_labels",
      token |-> "s1",
      ego_pose |-> ego,
      lidar_to_ego |-> cal,
      annotations |->
          <<Annotation("a1", "s1", "i_car", <<"at_moving">>, "v4",
                       VecAdd(ego.translation, off), r, <<2, 5, 1>>),
            Annotation("a2", "s2", "i_ped", <<>>, "v1",
                       <<14, 6, 0>>, RotZ90, <<1, 1, 2>>),
            Annotation("a3", "s1", "i_ped", <<"at_standing">>, "v2",
                       <<11, 8, 1>>, RotX90, <<1, 3, 2>>)>>] :
        ego \in PurePoses, cal \in PurePoses,
        off \in {<<0, 0, 0>>, <<3, 1, -2>>}, r \in {RotIdentity, RotZ90}}

PureInit ==
    /\ disk = Disk(<<>>, {}, [s \in SampleTokens |-> ""], <<>>, <<<<>>, <<>>>>)
    /\ pc = "pure"
    /\ subsetIdx = 1
    /\ is_test = FALSE
    /\ annotation_info = EmptyDict
    /\ opened = {}
    /\ sceneIdx = 0
    /\ segment = NoSegment
    /\ current_frame_token = ""
    /\ frame = EmptyDict
    /\ sfIdx = 0
    /\ dataset = EmptyDict
    /\ returned = NoDataset
    /\ error = NoError
    /\ \E in \in BoxInputs \cup LabelInputs : pure = [phase |-> "input", in |-> in]

ApplyGetLabeledBox ==
    /\ pure.phase = "input"
    /\ pure.in.fn = "_get_labeled_box"
    /\ pure' = [phase |-> "output", in |-> pure.in,
                out |-> _get_labeled_box(pure.in.annotation, PureTables)]
    /\ UNCHANGED loaderVars

ApplyGetLabels ==
    /\ pure.phase = "input"
    /\ pure.in.fn = "_get_labels"
    /\ pure' = [phase |-> "output", in |-> pure.in,
                out |-> _get_labels(pure.in.token, pure.in.ego_pose,
                                    pure.in.lidar_to_ego,
                                    PureInfo(pure.in.annotations))]
    /\ UNCHANGED loaderVars

PureNext == ApplyGetLabeledBox \/ ApplyGetLabels

PureSpec == PureInit /\ [][PureNext]_vars

----------------------------------------------------------------------------
(* C5 *)

ExpectedKey(group) ==
    CASE group = Str_vehicle -> "vehicle_motion"
      [] group = Str_cycle -> "cycle_rider"
      [] group = Str_pedestrian -> "pedestrian_motion"

BoxCalled == pure.phase = "output" /\ pure.in.fn = "_get_labeled_box"

AttributeName(tok) == RecordOf(AttributeTable, tok).name

\* C5: _get_labeled_box produces a label exactly if the instance, its
\* category, the attribute tokens and the visibility token resolve and every
\* attribute name has a last "." with one of the three groups before it; a
\* name of another group raises.  The label's attributes hold, for every
\* attribute name, the part after its last "." under the key of its group
\* (vehicle_motion, cycle_rider, pedestrian_motion), and the level of the
\* visibility token under "visibility", and nothing else.
C5_AttributeFlattening ==
    BoxCalled =>
        LET a == pure.in.annotation
            toks == a.attribute_tokens
            out == pure.out
            tables == [instance |-> InstanceTable, category |-> CategoryTable,
                       attribute |-> AttributeTable,
                       visibility |-> VisibilityTable]
        IN  /\ out.ok <=> AnnotationResolves(tables, a)
            /\ (\E i \in 1..Len(toks) :
                    /\ HasRecord(AttributeTable, toks[i])
                    /\ HasDot(AttributeName(toks[i]))
                    /\ GroupOf(AttributeName(toks[i])) \notin KnownGroups)
                   => ~out.ok
            /\ out.ok =>
                 /\ DOMAIN out.val.attributes =
                        {"visibility"}
                        \cup {ExpectedKey(GroupOf(AttributeName(toks[i]))) :
                                 i \in 1..Len(toks)}
                 /\ out.val.attributes["visibility"] =
                        RecordOf(VisibilityTable, a.visibility_token).level
                 /\ \A i \in 1..Len(toks) :
                      (\A j \in (i + 1)..Len(toks) :
                           GroupOf(AttributeName(toks[j]))
                               # GroupOf(AttributeName(toks[i])))
                      => out.val.attributes[
                             ExpectedKey(GroupOf(AttributeName(toks[i])))]
                         = StateOf(AttributeName(toks[i]))

\* "vehicle.moving" has been flattened to vehicle_motion = "moving"
C5_Witness ==
    /\ BoxCalled
    /\ pure.out.ok
    /\ pure.in.annotation.attribute_tokens = <<"at_rider", "at_moving">>
    /\ pure.out.val.attributes["vehicle_motion"] = <<"m", "o", "v", "i", "n", "g">>
    /\ pure.out.val.attributes["visibility"] = "v80-100"

----------------------------------------------------------------------------
(* C7 *)

LabelsCalled == pure.phase = "output" /\ pure.in.fn = "_get_labels"

\* where a point of the lidar frame lies in the world
LidarPointInWorld(ego, cal, v) ==
    VecAdd(ego.translation,
           Rotate(ego.rotation, VecAdd(cal.translation, Rotate(cal.rotation, v))))

\* what C7 says of every label but for the box at the ego's position: the
\* label is the annotation's box seen from the lidar, its size kept, and the
\* inverse of world_to_lidar takes it back to the annotation's box
LabelIsBoxInLidarFrame(ego, cal, a, label) ==
    LET world_to_lidar == TransformInverse(TransformMul(ego, cal))
        back == TransformBox(TransformInverse(world_to_lidar), label)
    IN  /\ label.size = <<a.size[2], a.size[1], a.size[3]>>
        /\ LidarPointInWorld(ego, cal, label.translation) = a.translation
        /\ RotMul(ego.rotation, RotMul(cal.rotation, label.rotation))
               = a.rotation
        /\ back.translation = a.translation
        /\ back.rotation = a.rotation
        /\ back.size = label.size

PureAnnotations ==
    SelectSeq(pure.in.annotations, LAMBDA a : a.sample_token = pure.in.token)

\* C7 as amended: every label is the annotation's box under world_to_lidar
\* with its size kept and the round trip restores the box; a box at the
\* ego's position comes out at the negated extrinsic translation turned by
\* the inverse of the extrinsic rotation.
C7_WorldToLidar ==
    LabelsCalled =>
        /\ pure.out.ok
        /\ Len(pure.out.val) = Len(PureAnnotations)
        /\ \A j \in 1..Len(PureAnnotations) :
             LET a == PureAnnotations[j]
                 ego == pure.in.ego_pose
                 cal == pure.in.lidar_to_ego
                 label == pure.out.val[j]
             IN  /\ LabelIsBoxInLidarFrame(ego, cal, a, label)
                 /\ a.translation = ego.translation =>
                      label.translation =
                          Rotate(RotInverse(cal.rotation),
                                 VecNeg(cal.translation))

\* C7 as stated: a box at the ego's position comes out at the negated
\* extrinsic translation.
C7_AsStated ==
    LabelsCalled =>
        /\ pure.out.ok
        /\ Len(pure.out.val) = Len(PureAnnotations)
        /\ \A j \in 1..Len(PureAnnotations) :
             LET a == PureAnnotations[j]
                 ego == pure.in.ego_pose
                 cal == pure.in.lidar_to_ego
                 label == pure.out.val[j]
             IN  /\ LabelIsBoxInLidarFrame(ego, cal, a, label)
                 /\ a.translation = ego.translation =>
                      label.translation = VecNeg(cal.translation)

\* a box at the ego's position was labelled through a turned calibration
C7_Witness ==
    /\ LabelsCalled
    /\ pure.out.ok
    /\ Len(pure.out.val) = 2
    /\ PureAnnotations[1].translation = pure.in.ego_pose.translation
    /\ pure.in.lidar_to_ego.rotation # RotIdentity
    /\ pure.in.ego_pose.rotation # RotIdentity
    /\ pure.out.val[1].translation # VecNeg(pure.in.lidar_to_ego.translation)

====
